---- MODULE Spec2Model ----
(***************************************************************************)
(* blankpage: a single-user memo + cloud-clipboard application.            *)
(*   - the client editor state machine of src/src/App.vue (memo draft and  *)
(*     clip draft, each with a debounced autosave), and                    *)
(*   - the Worker request handler of src/unnamed/part_000 (token auth,     *)
(*     memo CRUD on the relational store, KV caches, clip slot).           *)
(* Text is a sequence of one-character strings, so that trim() and length  *)
(* are computed, not assumed.                                              *)
(***************************************************************************)
EXTENDS Integers, Sequences, FiniteSets, TLC

(***************************************************************************)
(* Bounds of the model.                                                    *)
(***************************************************************************)
\* longest text the user types
MaxLen == 2
\* most requests the client has outstanding at once
MaxInFlight == 2
\* most notes ever created (identifiers 1..MaxId)
MaxId == 2
\* last clock value
MaxClock == 1
\* most notes created while invocations of the Worker overlap
MaxRacing == 1

Chars == {"a", " "}
Ids == 1 .. MaxId

RECURSIVE TextsOfLen(_)
TextsOfLen(n) ==
    IF n = 0 THEN {<<>>}
    ELSE {Append(s, c) : s \in TextsOfLen(n - 1), c \in Chars}

Texts == UNION {TextsOfLen(n) : n \in 0 .. MaxLen}

(***************************************************************************)
(* String.prototype.trim(): strips the blanks at both ends.                *)
(***************************************************************************)
RECURSIVE TrimStart(_)
TrimStart(s) ==
    IF s = <<>> THEN s
    ELSE IF Head(s) = " " THEN TrimStart(Tail(s))
    ELSE s

RECURSIVE TrimEnd(_)
TrimEnd(s) ==
    IF s = <<>> THEN s
    ELSE IF s[Len(s)] = " " THEN TrimEnd(SubSeq(s, 1, Len(s) - 1))
    ELSE s

Trim(s) == TrimEnd(TrimStart(s))

(***************************************************************************)
(* State.                                                                  *)
(***************************************************************************)
VARIABLES
    \* ---- Worker side: the D1 table, the KV namespace, the clock ----
    db,            \* rows of table memos: [id, content, created_at, updated_at]
    lastRowId,     \* last identifier the table assigned
    kvList,        \* KV key memo:list  : <<>> (absent) or <<list of rows>>
    kvMemo,        \* KV keys memo:<id> : id -> <<>> (absent) or <<row>>
    kvClip,        \* KV key clip:latest: <<>> (absent) or <<[text, created_at]>>
    kvTokens,      \* KV keys auth:token:<t> that are live
    clock,         \* Date.now(), in ticks
    worker,        \* the Worker's invocations that run side by side, by slot
    lastWrite,     \* history: per note id, the last write executed on the table
    \* ---- client side: the refs of App.vue ----
    token,
    isSaving,
    memos,
    selectedId,
    editorContent,
    editorDirty,
    memoLastSavedContent,
    memoAutosavePending,
    autosaveTimer,       \* the number of memo autosave timeouts armed
    typed,               \* history: <<text>> last typed into the draft still open,
                         \* with no save failed since; <<>> otherwise
    clipText,
    clipSaving,
    clipClearing,
    clipLastSavedText,
    clipAutosavePending,
    clipAutosaveTimer,   \* the number of clip autosave timeouts armed
    net            \* the client's requests in flight, in the order sent

kvars == <<db, lastRowId, kvList, kvMemo, kvClip, kvTokens>>
svars == <<kvars, clock, worker, lastWrite>>
mvars == <<memos, selectedId, editorContent, editorDirty, memoLastSavedContent,
           isSaving, memoAutosavePending, autosaveTimer, typed>>
cvars == <<clipText, clipSaving, clipClearing, clipLastSavedText,
           clipAutosavePending, clipAutosaveTimer>>
vars == <<svars, mvars, cvars, token, net>>

(***************************************************************************)
(* The Worker: store and cache primitives.                                 *)
(***************************************************************************)
APP_PASSWORD == "secret"
Tokens == {"t1"}

MemoRow(id, content, created, updated) ==
    [id |-> id, content |-> content, created_at |-> created, updated_at |-> updated]

\* INSERT INTO memos ...: the table assigns the next identifier
NewId(last) == last + 1

DbInsert(table, last, content, now) ==
    table \cup {MemoRow(NewId(last), content, now, now)}

\* UPDATE memos SET content, updated_at WHERE id: result.meta.changes
DbChanges(table, id) == Cardinality({r \in table : r.id = id})

DbUpdate(table, id, content, now) ==
    {IF r.id = id THEN [r EXCEPT !.content = content, !.updated_at = now] ELSE r
        : r \in table}

DbDelete(table, id) == {r \in table : r.id # id}

\* SELECT ... WHERE id = ?1 .first(): <<>> when there is no row
DbFirst(table, id) ==
    IF \E r \in table : r.id = id
    THEN <<CHOOSE r \in table : r.id = id>>
    ELSE <<>>

\* SELECT ... ORDER BY updated_at DESC: every order the database may return
\* (rows with the same updated_at come in any order)
DbAll(table) ==
    {s \in [1 .. Cardinality(table) -> table] :
        /\ \A i, j \in DOMAIN s : i # j => s[i] # s[j]
        /\ \A i, j \in DOMAIN s : i < j => s[i].updated_at >= s[j].updated_at}

\* getBearerToken: the header split at blanks; "" stands for null
getBearerToken(header) ==
    IF Len(header) < 2 THEN ""
    ELSE IF header[1] # "Bearer" \/ header[2] = "" THEN ""
    ELSE header[2]

\* requireAuth without the lookup of the token in the key-value store
requireAuthNoLookup(header, live) == getBearerToken(header) # ""

\* requireAuth
requireAuth(header, live) ==
    LET t == getBearerToken(header) IN
    IF t = "" THEN FALSE ELSE t \in live

(***************************************************************************)
(* The Worker's fetch handler run to completion on the stores S at time    *)
(* now: the set of outcomes [srv, status, data] it can produce.  A body is *)
(* <<>> (malformed JSON, or the field missing or not a string) or <<text>>.*)
(***************************************************************************)
Stores ==
    [db |-> db, lastRowId |-> lastRowId, kvList |-> kvList, kvMemo |-> kvMemo,
     kvClip |-> kvClip, kvTokens |-> kvTokens]

Reply(S, status, data) == [srv |-> S, status |-> status, data |-> data]

routeLogin(body, S) ==
    IF body = <<>> \/ body[1] = "" \/ body[1] # APP_PASSWORD
    THEN {Reply(S, 401, "invalid_credentials")}
    ELSE {Reply([S EXCEPT !.kvTokens = @ \cup {t}], 200, t) : t \in Tokens}

routeListMemos(S) ==
    IF S.kvList # <<>>
    THEN {Reply(S, 200, S.kvList[1])}
    ELSE {Reply([S EXCEPT !.kvList = <<rows>>], 200, rows) : rows \in DbAll(S.db)}

routeCreateMemo(body, S, now) ==
    IF body = <<>>
    THEN {Reply(S, 400, "invalid_payload")}
    ELSE {Reply([S EXCEPT !.db = DbInsert(S.db, S.lastRowId, body[1], now),
                          !.lastRowId = NewId(S.lastRowId),
                          !.kvList = <<>>],
                201, MemoRow(NewId(S.lastRowId), body[1], now, now))}

routeGetMemo(id, S) ==
    IF S.kvMemo[id] # <<>>
    THEN {Reply(S, 200, S.kvMemo[id][1])}
    ELSE LET row == DbFirst(S.db, id) IN
         IF row = <<>>
         THEN {Reply(S, 404, "not_found")}
         ELSE {Reply([S EXCEPT !.kvMemo[id] = row], 200, row[1])}

routeUpdateMemo(id, body, S, now) ==
    IF body = <<>>
    THEN {Reply(S, 400, "invalid_payload")}
    ELSE IF DbChanges(S.db, id) = 0
    THEN {Reply(S, 404, "not_found")}
    ELSE LET table == DbUpdate(S.db, id, body[1], now) IN
         {Reply([S EXCEPT !.db = table, !.kvList = <<>>, !.kvMemo[id] = <<>>],
                200, DbFirst(table, id)[1])}

routeDeleteMemo(id, S) ==
    IF DbChanges(S.db, id) = 0
    THEN {Reply(S, 404, "not_found")}
    ELSE {Reply([S EXCEPT !.db = DbDelete(S.db, id), !.kvList = <<>>,
                          !.kvMemo[id] = <<>>],
                204, "")}

routeGetClip(S) ==
    IF S.kvClip = <<>>
    THEN {Reply(S, 200, [text |-> <<>>, created_at |-> -1, null |-> TRUE])}
    ELSE {Reply(S, 200, S.kvClip[1])}

routePostClip(body, S, now) ==
    IF body = <<>>
    THEN {Reply(S, 400, "invalid_payload")}
    ELSE LET payload == [text |-> body[1], created_at |-> now, null |-> FALSE] IN
         {Reply([S EXCEPT !.kvClip = <<payload>>], 201, payload)}

fetch(route, id, body, header, S, now) ==
    IF route = "POST /api/login" THEN routeLogin(body, S)
    ELSE IF ~requireAuth(header, S.kvTokens)
    THEN {Reply(S, 401, "unauthorized")}
    ELSE IF route = "GET /api/memos" THEN routeListMemos(S)
    ELSE IF route = "POST /api/memos" THEN routeCreateMemo(body, S, now)
    ELSE IF route = "GET /api/memos/id" THEN routeGetMemo(id, S)
    ELSE IF route = "PUT /api/memos/id" THEN routeUpdateMemo(id, body, S, now)
    ELSE IF route = "DELETE /api/memos/id" THEN routeDeleteMemo(id, S)
    ELSE IF route = "GET /api/clip" THEN routeGetClip(S)
    ELSE IF route = "POST /api/clip" THEN routePostClip(body, S, now)
    ELSE {Reply(S, 404, "not_found")}

(***************************************************************************)
(* The client (App.vue).  A request in flight carries what its awaiting    *)
(* function closed over: kind, the note id, the text sent, the options of  *)
(* saveMemo, the authorization header apiFetch built, and the Worker's     *)
(* response once there is one.                                             *)
(***************************************************************************)
NoResp == <<>>

\* apiFetch: the authorization header is set only when a token is stored
AuthHeader(tok) == IF tok # "" THEN <<"Bearer", tok>> ELSE <<"">>

Request(kind, id, text, fromAutosave, silent, tok) ==
    [kind |-> kind, id |-> id, text |-> text, fromAutosave |-> fromAutosave,
     silent |-> silent, header |-> AuthHeader(tok), resp |-> NoResp]

RouteOf(r) ==
    CASE r.kind = "saveMemo" ->
            IF r.id # 0 THEN "PUT /api/memos/id" ELSE "POST /api/memos"
      [] r.kind \in {"saveClip", "autosaveClip", "clearClip"} -> "POST /api/clip"
      [] r.kind = "loadMemos" -> "GET /api/memos"
      [] r.kind = "loadClip" -> "GET /api/clip"
      [] r.kind = "deleteMemo" -> "DELETE /api/memos/id"
      [] r.kind = "login" -> "POST /api/login"

RemoveAt(q, i) == SubSeq(q, 1, i - 1) \o SubSeq(q, i + 1, Len(q))

InFlight(kinds) == {i \in DOMAIN net : net[i].kind \in kinds}

\* the login view replaces the workspace while no token is stored
WorkspaceShown == token # ""

\* clearTimeout of the timeout armed last, on the number of timeouts armed
clearTimeout(timer) == IF timer > 0 THEN timer - 1 ELSE 0

\* scheduleAutosave, were it to arm a timeout without clearing the last one
scheduleAutosaveNoClear(tok, saving, pending, timer) ==
    IF tok = "" THEN [pending |-> pending, timer |-> timer]
    ELSE IF saving THEN [pending |-> TRUE, timer |-> timer]
    ELSE [pending |-> pending, timer |-> timer + 1]

\* scheduleAutosave, on (pending flag, timeouts armed)
scheduleAutosave(tok, saving, pending, timer) ==
    IF tok = "" THEN [pending |-> pending, timer |-> timer]
    ELSE IF saving THEN [pending |-> TRUE, timer |-> timer]
    ELSE [pending |-> pending, timer |-> clearTimeout(timer) + 1]

\* the finally block of saveMemo, were it to leave the pending flag set
saveMemoFinallyKeepsPending(tok, dirty, pending, timer) ==
    IF pending /\ dirty
    THEN [pending |-> TRUE, timer |-> scheduleAutosave(tok, FALSE, FALSE, timer).timer]
    ELSE [pending |-> pending, timer |-> timer]

\* the finally block of saveMemo, after isSaving was reset
saveMemoFinally(tok, dirty, pending, timer) ==
    IF pending
    THEN IF dirty
         THEN scheduleAutosave(tok, FALSE, FALSE, timer)
         ELSE [pending |-> FALSE, timer |-> timer]
    ELSE [pending |-> pending, timer |-> timer]

\* scheduleClipAutosave, on (pending flag, timeouts armed)
scheduleClipAutosave(tok, saving, pending, timer) ==
    IF tok = "" THEN [pending |-> pending, timer |-> timer]
    ELSE IF saving THEN [pending |-> TRUE, timer |-> timer]
    ELSE [pending |-> pending, timer |-> clearTimeout(timer) + 1]

\* the finally block of saveClip, after clipSaving was reset
saveClipFinally(tok, pending, timer) ==
    IF pending
    THEN scheduleClipAutosave(tok, FALSE, FALSE, timer)
    ELSE [pending |-> pending, timer |-> timer]

\* saveMemo without its isSaving guard
saveMemoSkipsNoGuard(saving, content, fromAutosave, lastSaved) ==
    \/ content = <<>>
    \/ (fromAutosave /\ content = lastSaved)

\* saveMemo returns before it sets isSaving
saveMemoSkips(saving, content, fromAutosave, lastSaved) ==
    \/ saving
    \/ content = <<>>
    \/ (fromAutosave /\ content = lastSaved)

\* saveMemo up to its await, without the minimum length of a new note
saveMemoAnyLength(silent, fromAutosave, timer) ==
    LET content == Trim(editorContent) IN
    IF saveMemoSkips(isSaving, content, fromAutosave, memoLastSavedContent)
    THEN /\ autosaveTimer' = timer
         /\ UNCHANGED <<isSaving, memoAutosavePending, net>>
    ELSE /\ Len(net) < MaxInFlight
         /\ isSaving' = TRUE
         /\ autosaveTimer' = timer
         /\ net' = Append(net,
                Request("saveMemo", selectedId, content, fromAutosave, silent, token))
         /\ UNCHANGED memoAutosavePending

\* saveMemo up to its await; timer is the number of autosave timeouts armed
saveMemo(silent, fromAutosave, timer) ==
    LET content == Trim(editorContent) IN
    IF saveMemoSkips(isSaving, content, fromAutosave, memoLastSavedContent)
    THEN /\ autosaveTimer' = timer
         /\ UNCHANGED <<isSaving, memoAutosavePending, net>>
    ELSE IF selectedId = 0 /\ fromAutosave /\ Len(content) < 3
    THEN LET f == saveMemoFinally(token, editorDirty, memoAutosavePending, timer) IN
         /\ isSaving' = FALSE
         /\ memoAutosavePending' = f.pending
         /\ autosaveTimer' = f.timer
         /\ UNCHANGED net
    ELSE /\ Len(net) < MaxInFlight
         /\ isSaving' = TRUE
         /\ autosaveTimer' = timer
         /\ net' = Append(net,
                Request("saveMemo", selectedId, content, fromAutosave, silent, token))
         /\ UNCHANGED memoAutosavePending

\* the textarea's input event: v-model, then markDirty
markDirty(text) ==
    /\ WorkspaceShown
    /\ text # editorContent
    /\ editorContent' = text
    /\ editorDirty' = TRUE
    /\ typed' = <<text>>
    /\ LET s == scheduleAutosave(token, isSaving, memoAutosavePending, autosaveTimer) IN
         /\ memoAutosavePending' = s.pending
         /\ autosaveTimer' = s.timer
    /\ UNCHANGED <<svars, cvars, token, net, memos, selectedId,
                   memoLastSavedContent, isSaving>>

\* the save button, or Ctrl/Cmd+Enter
onSaveClick ==
    /\ WorkspaceShown
    /\ saveMemo(FALSE, FALSE, autosaveTimer)
    /\ UNCHANGED <<svars, cvars, token, memos, selectedId, editorContent,
                   editorDirty, memoLastSavedContent, typed>>

\* the timeout armed by scheduleAutosave fires
autosaveTimerFires ==
    /\ autosaveTimer > 0
    /\ IF ~editorDirty
       THEN /\ autosaveTimer' = autosaveTimer - 1
            /\ UNCHANGED <<isSaving, memoAutosavePending, net>>
       ELSE saveMemo(TRUE, TRUE, autosaveTimer - 1)
    /\ UNCHANGED <<svars, cvars, token, memos, selectedId, editorContent,
                   editorDirty, memoLastSavedContent, typed>>

\* selectMemo, were it to leave the editor and the dirty flag alone
selectMemoSetsKeepsDraft(memo) ==
    /\ selectedId' = memo.id
    /\ memoLastSavedContent' = memo.content
    /\ typed' = <<>>
    /\ UNCHANGED <<editorContent, editorDirty>>

\* selectMemo, on the refs it writes
selectMemoSets(memo) ==
    /\ selectedId' = memo.id
    /\ editorContent' = memo.content
    /\ editorDirty' = FALSE
    /\ memoLastSavedContent' = memo.content
    /\ typed' = <<>>

\* a click on a note of the list
selectMemo(memo) ==
    /\ WorkspaceShown
    /\ selectMemoSets(memo)
    /\ UNCHANGED <<svars, cvars, token, net, memos, isSaving,
                   memoAutosavePending, autosaveTimer>>

startNewMemo ==
    /\ WorkspaceShown
    /\ selectedId' = 0
    /\ editorContent' = <<>>
    /\ editorDirty' = FALSE
    /\ memoLastSavedContent' = <<>>
    /\ typed' = <<>>
    /\ UNCHANGED <<svars, cvars, token, net, memos, isSaving,
                   memoAutosavePending, autosaveTimer>>

\* response.ok
Ok(status) == status >= 200 /\ status <= 299

\* saveMemo after its await: the response resolved with a 2xx status
saveMemoSucceeds(r, data) ==
    /\ memos' = IF r.id # 0
                THEN [k \in DOMAIN memos |->
                        IF memos[k].id = data.id THEN data ELSE memos[k]]
                ELSE <<data>> \o memos
    /\ selectedId' = data.id
    /\ editorContent' = data.content
    /\ editorDirty' = FALSE
    /\ memoLastSavedContent' = r.text
    /\ isSaving' = FALSE
    /\ LET f == saveMemoFinally(token, FALSE, memoAutosavePending, autosaveTimer) IN
         /\ memoAutosavePending' = f.pending
         /\ autosaveTimer' = f.timer
    /\ UNCHANGED <<token, typed>>

\* saveMemo after its await, were apiFetch to leave the token on a 401
saveMemoFailsKeepsToken(tok) ==
    /\ token' = token
    /\ isSaving' = FALSE
    /\ LET f == saveMemoFinally(token, editorDirty, memoAutosavePending, autosaveTimer) IN
         /\ memoAutosavePending' = f.pending
         /\ autosaveTimer' = f.timer
    /\ typed' = <<>>
    /\ UNCHANGED <<memos, selectedId, editorContent, editorDirty, memoLastSavedContent>>

\* saveMemo after its await, were a failure to clear the dirty flag
saveMemoFailsMarksClean(tok) ==
    /\ token' = tok
    /\ isSaving' = FALSE
    /\ editorDirty' = FALSE
    /\ memoAutosavePending' = FALSE
    /\ typed' = <<>>
    /\ UNCHANGED <<memos, selectedId, editorContent, memoLastSavedContent, autosaveTimer>>

\* saveMemo after its await: apiFetch threw (tok is the token it left)
saveMemoFails(tok) ==
    /\ token' = tok
    /\ isSaving' = FALSE
    /\ LET f == saveMemoFinally(tok, editorDirty, memoAutosavePending, autosaveTimer) IN
         /\ memoAutosavePending' = f.pending
         /\ autosaveTimer' = f.timer
    /\ typed' = <<>>
    /\ UNCHANGED <<memos, selectedId, editorContent, editorDirty, memoLastSavedContent>>

(***************************************************************************)
(* The clip draft.                                                         *)
(***************************************************************************)
\* the clip textarea's input event (v-model, then markClipDirty), or pasteClip
markClipDirty(text) ==
    /\ WorkspaceShown
    /\ text # clipText
    /\ clipText' = text
    /\ LET s == scheduleClipAutosave(token, clipSaving, clipAutosavePending,
                                     clipAutosaveTimer) IN
         /\ clipAutosavePending' = s.pending
         /\ clipAutosaveTimer' = s.timer
    /\ UNCHANGED <<svars, mvars, token, net, clipSaving, clipClearing,
                   clipLastSavedText>>

\* the save button of the clip panel
saveClip ==
    /\ WorkspaceShown
    /\ ~clipSaving
    /\ Len(net) < MaxInFlight
    /\ clipSaving' = TRUE
    /\ net' = Append(net, Request("saveClip", 0, clipText, FALSE, FALSE, token))
    /\ UNCHANGED <<svars, mvars, token, clipText, clipClearing, clipLastSavedText,
                   clipAutosavePending, clipAutosaveTimer>>

\* the callback of the timeout armed by scheduleClipAutosave returns early
clipAutosaveSkipsNoCompare(saving, text, lastSaved) == saving

clipAutosaveSkips(saving, text, lastSaved) == saving \/ text = lastSaved

\* the timeout armed by scheduleClipAutosave fires
clipAutosaveTimerFires ==
    /\ clipAutosaveTimer > 0
    /\ clipAutosaveTimer' = clipAutosaveTimer - 1
    /\ IF clipAutosaveSkips(clipSaving, clipText, clipLastSavedText)
       THEN UNCHANGED net
       ELSE /\ Len(net) < MaxInFlight
            /\ net' = Append(net,
                   Request("autosaveClip", 0, clipText, TRUE, FALSE, token))
    /\ UNCHANGED <<svars, mvars, token, clipText, clipSaving, clipClearing,
                   clipLastSavedText, clipAutosavePending>>

\* what a resolved clip save stores as the last saved text
clipSnapshot(r, text) == text

\* saveClip after its await; ok: the response resolved with a 2xx status,
\* tok: the token apiFetch left
saveClipResolves(r, ok, tok) ==
    /\ token' = tok
    /\ clipLastSavedText' = IF ok THEN clipSnapshot(r, clipText) ELSE clipLastSavedText
    /\ clipSaving' = FALSE
    /\ LET f == saveClipFinally(tok, clipAutosavePending, clipAutosaveTimer) IN
         /\ clipAutosavePending' = f.pending
         /\ clipAutosaveTimer' = f.timer
    /\ UNCHANGED <<clipText, clipClearing>>

\* the clip autosave callback after its await
autosaveClipResolves(r, ok, tok) ==
    /\ token' = tok
    /\ clipLastSavedText' = IF ok THEN clipSnapshot(r, clipText) ELSE clipLastSavedText
    /\ UNCHANGED <<clipText, clipSaving, clipClearing, clipAutosavePending,
                   clipAutosaveTimer>>

\* the clear button of the clip panel
clearClip ==
    /\ WorkspaceShown
    /\ ~clipClearing
    /\ Len(net) < MaxInFlight
    /\ clipClearing' = TRUE
    /\ net' = Append(net, Request("clearClip", 0, <<>>, FALSE, FALSE, token))
    /\ UNCHANGED <<svars, mvars, token, clipText, clipSaving, clipLastSavedText,
                   clipAutosavePending, clipAutosaveTimer>>

\* clearClip after its await
clearClipResolves(ok, data, tok) ==
    /\ token' = tok
    /\ clipText' = IF ok THEN data.text ELSE clipText
    /\ clipLastSavedText' = IF ok THEN data.text ELSE clipLastSavedText
    /\ clipClearing' = FALSE
    /\ UNCHANGED <<clipSaving, clipAutosavePending, clipAutosaveTimer>>

\* loadClip after its await
loadClipResolves(ok, data, tok) ==
    /\ token' = tok
    /\ clipText' = IF ok THEN data.text ELSE clipText
    /\ clipLastSavedText' = IF ok THEN data.text ELSE clipLastSavedText
    /\ UNCHANGED <<clipSaving, clipClearing, clipAutosavePending, clipAutosaveTimer>>

(***************************************************************************)
(* Session, reload and delete.                                             *)
(***************************************************************************)
\* loadMemos after its await
loadMemosResolves(ok, data, tok) ==
    /\ token' = tok
    /\ IF ok
       THEN /\ memos' = data
            /\ IF selectedId = 0 /\ data # <<>>
               THEN selectMemoSets(data[1])
               ELSE UNCHANGED <<selectedId, editorContent, editorDirty,
                                memoLastSavedContent, typed>>
       ELSE UNCHANGED <<memos, selectedId, editorContent, editorDirty,
                        memoLastSavedContent, typed>>
    /\ UNCHANGED <<isSaving, memoAutosavePending, autosaveTimer>>

\* refreshAll up to its await: loadMemos and loadClip are both sent
refreshAllSends(q, tok) ==
    q \o <<Request("loadMemos", 0, <<>>, FALSE, FALSE, tok),
           Request("loadClip", 0, <<>>, FALSE, FALSE, tok)>>

\* the refresh button (disabled while loadMemos runs)
refreshAll ==
    /\ WorkspaceShown
    /\ InFlight({"loadMemos"}) = {}
    /\ Len(net) + 2 <= MaxInFlight
    /\ net' = refreshAllSends(net, token)
    /\ UNCHANGED <<svars, mvars, cvars, token>>

\* the login form
login(password) ==
    /\ ~WorkspaceShown
    /\ Len(net) < MaxInFlight
    /\ net' = Append(net, Request("login", 0, password, FALSE, FALSE, ""))
    /\ UNCHANGED <<svars, mvars, cvars, token>>

signOut ==
    /\ WorkspaceShown
    /\ token' = ""
    /\ memos' = <<>>
    /\ selectedId' = 0
    /\ editorContent' = <<>>
    /\ editorDirty' = FALSE
    /\ memoLastSavedContent' = <<>>
    /\ typed' = <<>>
    /\ clipText' = <<>>
    /\ clipLastSavedText' = <<>>
    /\ UNCHANGED <<svars, net, isSaving, memoAutosavePending, autosaveTimer,
                   clipSaving, clipClearing, clipAutosavePending, clipAutosaveTimer>>

\* the delete button, confirmed by the user
deleteMemo ==
    /\ WorkspaceShown
    /\ selectedId # 0
    /\ Len(net) < MaxInFlight
    /\ net' = Append(net, Request("deleteMemo", selectedId, <<>>, FALSE, FALSE, token))
    /\ UNCHANGED <<svars, mvars, cvars, token>>

\* Array.prototype.filter on the local list
FilterMemos(list, id) == SelectSeq(list, LAMBDA memo : memo.id # id)

\* deleteMemo after its await
deleteMemoResolves(ok, tok) ==
    /\ token' = tok
    /\ IF ok
       THEN LET rest == FilterMemos(memos, selectedId) IN
            /\ memos' = rest
            /\ IF rest # <<>>
               THEN selectMemoSets(rest[1])
               ELSE /\ selectedId' = 0
                    /\ editorContent' = <<>>
                    /\ editorDirty' = FALSE
                    /\ memoLastSavedContent' = <<>>
                    /\ typed' = <<>>
       ELSE UNCHANGED <<memos, selectedId, editorContent, editorDirty,
                        memoLastSavedContent, typed>>
    /\ UNCHANGED <<isSaving, memoAutosavePending, autosaveTimer>>

(***************************************************************************)
(* The network between the client and the Worker.                          *)
(***************************************************************************)
\* the Worker handles request i of the client and answers it
WorkerResponds(i) ==
    /\ net[i].resp = NoResp
    /\ RouteOf(net[i]) = "POST /api/memos" => lastRowId < MaxId
    /\ \E out \in fetch(RouteOf(net[i]), net[i].id, <<net[i].text>>,
                        net[i].header, Stores, clock) :
         /\ db' = out.srv.db
         /\ lastRowId' = out.srv.lastRowId
         /\ kvList' = out.srv.kvList
         /\ kvMemo' = out.srv.kvMemo
         /\ kvClip' = out.srv.kvClip
         /\ kvTokens' = out.srv.kvTokens
         /\ net' = [net EXCEPT ![i].resp = <<[status |-> out.status, data |-> out.data]>>]
    /\ UNCHANGED <<clock, worker, lastWrite, mvars, cvars, token>>

\* the function awaiting request i resumes: ok and data are the outcome of
\* apiFetch, tok the token it left (setToken('') on a 401)
Resumes(r, ok, data, tok, rest) ==
    CASE r.kind = "saveMemo" ->
            /\ IF ok THEN saveMemoSucceeds(r, data) ELSE saveMemoFails(tok)
            /\ net' = rest
            /\ UNCHANGED cvars
      [] r.kind = "saveClip" ->
            /\ saveClipResolves(r, ok, tok)
            /\ net' = rest
            /\ UNCHANGED mvars
      [] r.kind = "autosaveClip" ->
            /\ autosaveClipResolves(r, ok, tok)
            /\ net' = rest
            /\ UNCHANGED mvars
      [] r.kind = "clearClip" ->
            /\ clearClipResolves(ok, data, tok)
            /\ net' = rest
            /\ UNCHANGED mvars
      [] r.kind = "loadClip" ->
            /\ loadClipResolves(ok, data, tok)
            /\ net' = rest
            /\ UNCHANGED mvars
      [] r.kind = "loadMemos" ->
            /\ loadMemosResolves(ok, data, tok)
            /\ net' = rest
            /\ UNCHANGED cvars
      [] r.kind = "deleteMemo" ->
            /\ deleteMemoResolves(ok, tok)
            /\ net' = rest
            /\ UNCHANGED cvars
      [] r.kind = "login" ->
            \* login uses fetchWithTimeout: a 401 does not touch the token
            /\ IF ok
               THEN /\ Len(rest) + 2 <= MaxInFlight
                    /\ token' = data
                    /\ net' = refreshAllSends(rest, data)
               ELSE /\ net' = rest
                    /\ UNCHANGED token
            /\ UNCHANGED <<mvars, cvars>>

\* the response to request i arrives
ResponseArrives(i) ==
    /\ net[i].resp # NoResp
    /\ LET r == net[i]
           status == r.resp[1].status
       IN Resumes(r, Ok(status), r.resp[1].data,
                  IF status = 401 /\ r.kind # "login" THEN "" ELSE token,
                  RemoveAt(net, i))
    /\ UNCHANGED svars

\* request i times out (REQUEST_TIMEOUT_MS) or the network fails: fetch rejects
RequestFails(i) ==
    /\ Resumes(net[i], FALSE, <<>>, token, RemoveAt(net, i))
    /\ UNCHANGED svars

(***************************************************************************)
(* Time: the clock advances, KV entries reach their expirationTtl.         *)
(***************************************************************************)
Tick ==
    /\ clock < MaxClock
    /\ clock' = clock + 1
    /\ UNCHANGED <<kvars, worker, lastWrite, mvars, cvars, token, net>>

TokenExpires ==
    /\ \E t \in kvTokens : kvTokens' = kvTokens \ {t}
    /\ UNCHANGED <<db, lastRowId, kvList, kvMemo, kvClip, clock, worker, lastWrite,
                   mvars, cvars, token, net>>

ClipExpires ==
    /\ kvClip # <<>>
    /\ kvClip' = <<>>
    /\ UNCHANGED <<db, lastRowId, kvList, kvMemo, kvTokens, clock, worker, lastWrite,
                   mvars, cvars, token, net>>

\* the caches, were the list entry put without an expirationTtl
CacheExpiresNotList ==
    /\ \E id \in Ids : kvMemo[id] # <<>> /\ kvMemo' = [kvMemo EXCEPT ![id] = <<>>]
    /\ UNCHANGED <<db, lastRowId, kvList, kvClip, kvTokens, clock, worker, lastWrite,
                   mvars, cvars, token, net>>

CacheExpires ==
    /\ \/ /\ kvList # <<>>
          /\ kvList' = <<>>
          /\ UNCHANGED kvMemo
       \/ /\ \E id \in Ids : kvMemo[id] # <<>> /\ kvMemo' = [kvMemo EXCEPT ![id] = <<>>]
          /\ UNCHANGED kvList
    /\ UNCHANGED <<db, lastRowId, kvClip, kvTokens, clock, worker, lastWrite,
                   mvars, cvars, token, net>>

(***************************************************************************)
(* The Worker's invocations step by step: every await of fetch is a point  *)
(* where another invocation may run.  An invocation holds its request      *)
(* (route, id, body, header), its locals (now, val) and, once built, its   *)
(* response (status, data).  The fields bad, touched, old, latest and      *)
(* after are history, read by no step:                                     *)
(*   bad     the credential was missing, malformed or not live at the KV   *)
(*           lookup of requireAuth                                         *)
(*   touched a step of this invocation read or wrote notes, note caches or *)
(*           the clip slot                                                 *)
(*   old     the row a write found (<<>> if none)                          *)
(*   latest  this invocation's write is the last one executed on its note  *)
(*   after   a read started when the writes it could see had all answered, *)
(*           and no write was executed since: the kind of the last write   *)
(***************************************************************************)
Slots == 1 .. MaxInFlight

Idle ==
    [pc |-> "idle", route |-> "", id |-> 0, body |-> <<>>, header |-> <<>>,
     now |-> 0, val |-> <<>>, status |-> 0, data |-> <<>>,
     bad |-> FALSE, touched |-> FALSE, old |-> <<>>, latest |-> FALSE, after |-> ""]

Routes ==
    {"OPTIONS", "POST /api/login", "GET /api/memos", "POST /api/memos",
     "GET /api/memos/id", "PUT /api/memos/id", "DELETE /api/memos/id",
     "GET /api/clip", "POST /api/clip", "GET /api/other"}

WithId == {"GET /api/memos/id", "PUT /api/memos/id", "DELETE /api/memos/id"}
WithBody == {"POST /api/login", "POST /api/memos", "PUT /api/memos/id", "POST /api/clip"}

\* authorization headers, split at blanks
Headers ==
    {<<"">>, <<"Bearer", "">>, <<"Basic", "t1">>, <<"Bearer", "t0">>,
     <<"Bearer", "", "t1">>, <<"Bearer", "t1">>, <<"Bearer", "t1", "x">>}

\* request bodies: <<>> is malformed JSON or a missing or mistyped field
BodyTexts == {<<>>, <<"a">>}
Bodies(route) ==
    IF route = "POST /api/login" THEN {<<>>, <<"">>, <<"wrong">>, <<APP_PASSWORD>>}
    ELSE IF route \in WithBody THEN {<<>>} \cup {<<t>> : t \in BodyTexts}
    ELSE {<<>>}

NoWrite == [kind |-> "", acked |-> FALSE]

\* every write executed so far has been answered, and there is one
Settled == 
    /\ \A id \in Ids : lastWrite[id].kind # "" => lastWrite[id].acked
    /\ \E id \in Ids : lastWrite[id].kind # ""

\* route dispatch without the final 404: what matches nothing reads the clip
FirstStepNoFallthrough(route) ==
    CASE route = "GET /api/memos" -> "listGet"
      [] route = "POST /api/memos" -> "insert"
      [] route = "GET /api/memos/id" -> "memoGet"
      [] route = "PUT /api/memos/id" -> "update"
      [] route = "DELETE /api/memos/id" -> "delete"
      [] route = "POST /api/clip" -> "clipPut"
      [] OTHER -> "clipGet"

\* the first step of a route, after requireAuth let the request pass
FirstStep(route) ==
    CASE route = "GET /api/memos" -> "listGet"
      [] route = "POST /api/memos" -> "insert"
      [] route = "GET /api/memos/id" -> "memoGet"
      [] route = "PUT /api/memos/id" -> "update"
      [] route = "DELETE /api/memos/id" -> "delete"
      [] route = "GET /api/clip" -> "clipGet"
      [] route = "POST /api/clip" -> "clipPut"
      [] OTHER -> "notFound"

Respond(r, status, data) == [r EXCEPT !.pc = "done", !.status = status, !.data = data]

ClientIdle == UNCHANGED <<mvars, cvars, token, net>>

\* fetch is invoked with a request; the invocation takes the first free slot
Arrives(s, route, id, header) ==
    /\ worker[s].pc = "idle"
    /\ \A t \in Slots : t < s => worker[t].pc # "idle"
    /\ LET r == [Idle EXCEPT !.route = route, !.id = id, !.header = header,
                             !.after = IF route = "GET /api/memos"
                                       THEN IF Settled THEN "any" ELSE ""
                                       ELSE IF route = "GET /api/memos/id"
                                            /\ lastWrite[id].acked
                                       THEN lastWrite[id].kind
                                       ELSE ""]
       IN worker' = [worker EXCEPT ![s] =
            IF route = "OPTIONS" THEN Respond(r, 204, "")
            ELSE IF route = "POST /api/login" THEN [r EXCEPT !.pc = "login"]
            ELSE [r EXCEPT !.pc = "auth"]]
    /\ UNCHANGED <<kvars, clock, lastWrite>>
    /\ ClientIdle

\* POST /api/login without the comparison with env.APP_PASSWORD
LoginAnyPassword(s, body) ==
    /\ worker[s].pc = "login"
    /\ LET r == [worker[s] EXCEPT !.body = body] IN
       IF body = <<>> \/ body[1] = ""
       THEN /\ worker' = [worker EXCEPT ![s] = Respond(r, 401, "invalid_credentials")]
            /\ UNCHANGED kvTokens
       ELSE \E t \in Tokens :
            /\ kvTokens' = kvTokens \cup {t}
            /\ worker' = [worker EXCEPT ![s] = Respond(r, 200, t)]
    /\ UNCHANGED <<db, lastRowId, kvList, kvMemo, kvClip, clock, lastWrite>>
    /\ ClientIdle

\* POST /api/login: readJson yields body
Login(s, body) ==
    /\ worker[s].pc = "login"
    /\ LET r == [worker[s] EXCEPT !.body = body] IN
       IF body = <<>> \/ body[1] = "" \/ body[1] # APP_PASSWORD
       THEN /\ worker' = [worker EXCEPT ![s] = Respond(r, 401, "invalid_credentials")]
            /\ UNCHANGED kvTokens
       ELSE \E t \in Tokens :
            /\ kvTokens' = kvTokens \cup {t}
            /\ worker' = [worker EXCEPT ![s] = Respond(r, 200, t)]
    /\ UNCHANGED <<db, lastRowId, kvList, kvMemo, kvClip, clock, lastWrite>>
    /\ ClientIdle

\* the credential is missing, malformed or no live key
BadCredential(header, live) ==
    \/ Len(header) < 2
    \/ header[1] # "Bearer"
    \/ header[2] = ""
    \/ header[2] \notin live

\* what fetch does with the outcome of requireAuth and of readJson
Dispatch(r, authOk) ==
    IF ~authOk THEN Respond(r, 401, "unauthorized")
    ELSE IF r.route \in WithBody /\ r.body = <<>>
    THEN Respond(r, 400, "invalid_payload")
    ELSE IF FirstStep(r.route) = "notFound" THEN Respond(r, 404, "not_found")
    ELSE [r EXCEPT !.pc = FirstStep(r.route),
                   \* const now = new Date().toISOString(), before the awaited call
                   !.now = IF r.route \in WithBody THEN clock ELSE @]

\* requireAuth, then the route's readJson, which yields body
Auth(s, body) ==
    /\ worker[s].pc = "auth"
    /\ LET r == [worker[s] EXCEPT !.bad = BadCredential(worker[s].header, kvTokens),
                                  !.body = body] IN
       worker' = [worker EXCEPT ![s] = Dispatch(r, requireAuth(r.header, kvTokens))]
    /\ UNCHANGED <<kvars, clock, lastWrite>>
    /\ ClientIdle

\* invocation s, now r, executed a write of the given kind on note id
Executed(s, r, id, kind) ==
    /\ worker' = [t \in Slots |->
         IF t = s THEN [r EXCEPT !.latest = TRUE, !.touched = TRUE]
         ELSE [worker[t] EXCEPT
                 !.latest = IF worker[t].id = id THEN FALSE ELSE @,
                 !.after = IF worker[t].route = "GET /api/memos" \/ worker[t].id = id
                           THEN "" ELSE @]]
    /\ lastWrite' = [lastWrite EXCEPT ![id] = [kind |-> kind, acked |-> FALSE]]

Step(s, r) == worker' = [worker EXCEPT ![s] = [r EXCEPT !.touched = TRUE]]

\* GET /api/memos: MEMO_KV.get(MEMO_LIST_CACHE_KEY)
ListGet(s) ==
    /\ worker[s].pc = "listGet"
    /\ Step(s, IF kvList # <<>>
               THEN Respond(worker[s], 200, kvList[1])
               ELSE [worker[s] EXCEPT !.pc = "listSelect"])
    /\ UNCHANGED <<kvars, clock, lastWrite>>
    /\ ClientIdle

\* GET /api/memos: SELECT ... ORDER BY updated_at DESC
ListSelect(s) ==
    /\ worker[s].pc = "listSelect"
    /\ \E rows \in DbAll(db) :
         Step(s, [worker[s] EXCEPT !.pc = "listPut", !.val = rows])
    /\ UNCHANGED <<kvars, clock, lastWrite>>
    /\ ClientIdle

\* GET /api/memos: MEMO_KV.put(MEMO_LIST_CACHE_KEY, rows)
ListPut(s) ==
    /\ worker[s].pc = "listPut"
    /\ kvList' = <<worker[s].val>>
    /\ Step(s, Respond(worker[s], 200, worker[s].val))
    /\ UNCHANGED <<db, lastRowId, kvMemo, kvClip, kvTokens, clock, lastWrite>>
    /\ ClientIdle

\* POST /api/memos: INSERT
Insert(s, cap) ==
    /\ worker[s].pc = "insert"
    /\ lastRowId < cap
    /\ LET r == worker[s]
           id == NewId(lastRowId)
       IN /\ db' = DbInsert(db, lastRowId, r.body[1], r.now)
          /\ lastRowId' = id
          /\ Executed(s, [r EXCEPT !.pc = "insertDel", !.id = id,
                                   !.val = MemoRow(id, r.body[1], r.now, r.now)],
                      id, "POST")
    /\ UNCHANGED <<kvList, kvMemo, kvClip, kvTokens, clock>>
    /\ ClientIdle

\* POST /api/memos: MEMO_KV.delete(MEMO_LIST_CACHE_KEY)
InsertDel(s) ==
    /\ worker[s].pc = "insertDel"
    /\ kvList' = <<>>
    /\ Step(s, Respond(worker[s], 201, worker[s].val))
    /\ UNCHANGED <<db, lastRowId, kvMemo, kvClip, kvTokens, clock, lastWrite>>
    /\ ClientIdle

\* GET /api/memos/{id}: MEMO_KV.get(cacheKey)
MemoGet(s) ==
    /\ worker[s].pc = "memoGet"
    /\ Step(s, IF kvMemo[worker[s].id] # <<>>
               THEN Respond(worker[s], 200, kvMemo[worker[s].id][1])
               ELSE [worker[s] EXCEPT !.pc = "memoSelect"])
    /\ UNCHANGED <<kvars, clock, lastWrite>>
    /\ ClientIdle

\* GET /api/memos/{id}: SELECT ... WHERE id
MemoSelect(s) ==
    /\ worker[s].pc = "memoSelect"
    /\ LET row == DbFirst(db, worker[s].id) IN
       Step(s, IF row = <<>>
               THEN Respond(worker[s], 404, "not_found")
               ELSE [worker[s] EXCEPT !.pc = "memoPut", !.val = row])
    /\ UNCHANGED <<kvars, clock, lastWrite>>
    /\ ClientIdle

\* GET /api/memos/{id}: MEMO_KV.put(cacheKey, row)
MemoPut(s) ==
    /\ worker[s].pc = "memoPut"
    /\ kvMemo' = [kvMemo EXCEPT ![worker[s].id] = worker[s].val]
    /\ Step(s, Respond(worker[s], 200, worker[s].val[1]))
    /\ UNCHANGED <<db, lastRowId, kvList, kvClip, kvTokens, clock, lastWrite>>
    /\ ClientIdle

\* PUT /api/memos/{id}: UPDATE
Update(s) ==
    /\ worker[s].pc = "update"
    /\ LET r == worker[s] IN
       IF DbChanges(db, r.id) = 0
       THEN /\ Step(s, Respond(r, 404, "not_found"))
            /\ UNCHANGED <<db, lastWrite>>
       ELSE /\ db' = DbUpdate(db, r.id, r.body[1], r.now)
            /\ Executed(s, [r EXCEPT !.pc = "updateDelList",
                                     !.old = DbFirst(db, r.id)],
                        r.id, "PUT")
    /\ UNCHANGED <<lastRowId, kvList, kvMemo, kvClip, kvTokens, clock>>
    /\ ClientIdle

\* PUT /api/memos/{id}: MEMO_KV.delete(MEMO_LIST_CACHE_KEY)
UpdateDelList(s) ==
    /\ worker[s].pc = "updateDelList"
    /\ kvList' = <<>>
    /\ Step(s, [worker[s] EXCEPT !.pc = "updateDelMemo"])
    /\ UNCHANGED <<db, lastRowId, kvMemo, kvClip, kvTokens, clock, lastWrite>>
    /\ ClientIdle

\* PUT /api/memos/{id}: MEMO_KV.delete(cacheKey)
UpdateDelMemo(s) ==
    /\ worker[s].pc = "updateDelMemo"
    /\ kvMemo' = [kvMemo EXCEPT ![worker[s].id] = <<>>]
    /\ Step(s, [worker[s] EXCEPT !.pc = "updateSelect"])
    /\ UNCHANGED <<db, lastRowId, kvList, kvClip, kvTokens, clock, lastWrite>>
    /\ ClientIdle

\* the record a PUT answers with: the row, or the one it makes up
UpdateAnswer(r, row) ==
    IF row # <<>> THEN row[1] ELSE MemoRow(r.id, r.body[1], r.now, r.now)

\* PUT /api/memos/{id}: SELECT ... WHERE id
UpdateSelect(s) ==
    /\ worker[s].pc = "updateSelect"
    /\ Step(s, Respond(worker[s], 200, UpdateAnswer(worker[s], DbFirst(db, worker[s].id))))
    /\ UNCHANGED <<kvars, clock, lastWrite>>
    /\ ClientIdle

\* DELETE /api/memos/{id}: DELETE
Delete(s) ==
    /\ worker[s].pc = "delete"
    /\ LET r == worker[s] IN
       IF DbChanges(db, r.id) = 0
       THEN /\ Step(s, Respond(r, 404, "not_found"))
            /\ UNCHANGED <<db, lastWrite>>
       ELSE /\ db' = DbDelete(db, r.id)
            /\ Executed(s, [r EXCEPT !.pc = "deleteDelList", !.old = DbFirst(db, r.id)],
                        r.id, "DELETE")
    /\ UNCHANGED <<lastRowId, kvList, kvMemo, kvClip, kvTokens, clock>>
    /\ ClientIdle

\* DELETE /api/memos/{id}: MEMO_KV.delete(MEMO_LIST_CACHE_KEY)
DeleteDelList(s) ==
    /\ worker[s].pc = "deleteDelList"
    /\ kvList' = <<>>
    /\ Step(s, [worker[s] EXCEPT !.pc = "deleteDelMemo"])
    /\ UNCHANGED <<db, lastRowId, kvMemo, kvClip, kvTokens, clock, lastWrite>>
    /\ ClientIdle

\* DELETE /api/memos/{id}: MEMO_KV.delete(cacheKey)
DeleteDelMemo(s) ==
    /\ worker[s].pc = "deleteDelMemo"
    /\ kvMemo' = [kvMemo EXCEPT ![worker[s].id] = <<>>]
    /\ Step(s, Respond(worker[s], 204, ""))
    /\ UNCHANGED <<db, lastRowId, kvList, kvClip, kvTokens, clock, lastWrite>>
    /\ ClientIdle

\* GET /api/clip, were an empty saved text reported like no clip at all
ClipGetEmptyAsNull(s) ==
    /\ worker[s].pc = "clipGet"
    /\ Step(s, Respond(worker[s], 200,
                       IF kvClip = <<>> \/ kvClip[1].text = <<>>
                       THEN [text |-> <<>>, created_at |-> -1, null |-> TRUE]
                       ELSE kvClip[1]))
    /\ UNCHANGED <<kvars, clock, lastWrite>>
    /\ ClientIdle

\* GET /api/clip
ClipGet(s) ==
    /\ worker[s].pc = "clipGet"
    /\ Step(s, Respond(worker[s], 200,
                       IF kvClip = <<>>
                       THEN [text |-> <<>>, created_at |-> -1, null |-> TRUE]
                       ELSE kvClip[1]))
    /\ UNCHANGED <<kvars, clock, lastWrite>>
    /\ ClientIdle

\* POST /api/clip
ClipPut(s) ==
    /\ worker[s].pc = "clipPut"
    /\ LET payload == [text |-> worker[s].body[1], created_at |-> worker[s].now,
                       null |-> FALSE] IN
         /\ kvClip' = <<payload>>
         /\ Step(s, Respond(worker[s], 201, payload))
    /\ UNCHANGED <<db, lastRowId, kvList, kvMemo, kvTokens, clock, lastWrite>>
    /\ ClientIdle

\* the response of invocation s is out; the write it executed is answered
Completes(s) ==
    /\ worker[s].pc = "done"
    /\ worker' = [worker EXCEPT ![s] = Idle]
    /\ lastWrite' = IF worker[s].latest
                    THEN [lastWrite EXCEPT ![worker[s].id].acked = TRUE]
                    ELSE lastWrite
    /\ UNCHANGED <<kvars, clock>>
    /\ ClientIdle

\* the run of invocation s ends at the await after its durable write, before
\* the cache deletes that follow it: the KV call throws or the run is cut off
Crash(s) ==
    /\ worker[s].pc \in {"insertDel", "updateDelList", "updateDelMemo",
                         "deleteDelList", "deleteDelMemo"}
    /\ worker' = [worker EXCEPT ![s] = Idle]
    /\ UNCHANGED <<kvars, clock, lastWrite>>
    /\ ClientIdle

(***************************************************************************)
(* Specifications.                                                         *)
(***************************************************************************)
\* empty stores, no invocation running
WorkerInit ==
    /\ db = {}
    /\ lastRowId = 0
    /\ kvList = <<>>
    /\ kvMemo = [id \in Ids |-> <<>>]
    /\ kvClip = <<>>
    /\ clock = 0
    /\ worker = [s \in Slots |-> Idle]
    /\ lastWrite = [id \in Ids |-> NoWrite]

\* the refs of App.vue as set up, nothing in flight
ClientInit ==
    /\ isSaving = FALSE
    /\ memos = <<>>
    /\ selectedId = 0
    /\ editorContent = <<>>
    /\ editorDirty = FALSE
    /\ memoLastSavedContent = <<>>
    /\ memoAutosavePending = FALSE
    /\ autosaveTimer = 0
    /\ typed = <<>>
    /\ clipText = <<>>
    /\ clipSaving = FALSE
    /\ clipClearing = FALSE
    /\ clipLastSavedText = <<>>
    /\ clipAutosavePending = FALSE
    /\ clipAutosaveTimer = 0
    /\ net = <<>>

\* a first visit: nothing in localStorage, no session token in KV
Init ==
    /\ WorkerInit
    /\ ClientInit
    /\ kvTokens = {}
    /\ token = ""

\* after a login on empty stores: the token is stored on both sides, both
\* loads came back empty and the list cache has expired
InitLoggedIn ==
    /\ WorkerInit
    /\ ClientInit
    /\ kvTokens = {"t1"}
    /\ token = "t1"

Passwords == {APP_PASSWORD, "wrong"}

\* the whole client against the Worker
Next ==
    \/ \E text \in Texts : markDirty(text)
    \/ onSaveClick
    \/ autosaveTimerFires
    \/ \E k \in DOMAIN memos : selectMemo(memos[k])
    \/ startNewMemo
    \/ deleteMemo
    \/ \E text \in Texts : markClipDirty(text)
    \/ saveClip
    \/ clipAutosaveTimerFires
    \/ clearClip
    \/ refreshAll
    \/ \E password \in Passwords : login(password)
    \/ signOut
    \/ \E i \in DOMAIN net : WorkerResponds(i)
    \/ \E i \in DOMAIN net : ResponseArrives(i)
    \/ \E i \in DOMAIN net : RequestFails(i)
    \/ TokenExpires
    \/ ClipExpires

Spec == Init /\ [][Next]_vars

\* the memo draft of a logged-in client
NextMemo ==
    \/ \E text \in Texts : markDirty(text)
    \/ onSaveClick
    \/ autosaveTimerFires
    \/ \E k \in DOMAIN memos : selectMemo(memos[k])
    \/ startNewMemo
    \/ signOut
    \/ \E i \in DOMAIN net : WorkerResponds(i)
    \/ \E i \in DOMAIN net : ResponseArrives(i)
    \/ \E i \in DOMAIN net : RequestFails(i)
    \/ TokenExpires

SpecMemo == InitLoggedIn /\ [][NextMemo]_vars

\* the clip draft of a logged-in client
NextClip ==
    \/ \E text \in Texts : markClipDirty(text)
    \/ saveClip
    \/ clipAutosaveTimerFires
    \/ signOut
    \/ \E i \in DOMAIN net : WorkerResponds(i)
    \/ \E i \in DOMAIN net : ResponseArrives(i)
    \/ \E i \in DOMAIN net : RequestFails(i)
    \/ TokenExpires

SpecClip == InitLoggedIn /\ [][NextClip]_vars

\* both drafts side by side, on a few texts
MemoInputs == {<<>>, <<"a">>, <<"a", " ">>}
ClipInputs == {<<>>, <<"a">>}

NextDrafts ==
    \/ \E text \in MemoInputs : markDirty(text)
    \/ onSaveClick
    \/ autosaveTimerFires
    \/ \E text \in ClipInputs : markClipDirty(text)
    \/ saveClip
    \/ clipAutosaveTimerFires
    \/ signOut
    \/ \E i \in DOMAIN net : WorkerResponds(i)
    \/ \E i \in DOMAIN net : ResponseArrives(i)
    \/ \E i \in DOMAIN net : RequestFails(i)
    \/ TokenExpires

SpecDrafts == InitLoggedIn /\ [][NextDrafts]_vars

\* both drafts and the delete button, with every way a save can fail short
\* of a 401: timeout, network failure, and a 404 for a note deleted meanwhile
NextFailures ==
    \/ \E text \in MemoInputs : markDirty(text)
    \/ onSaveClick
    \/ autosaveTimerFires
    \/ deleteMemo
    \/ \E text \in ClipInputs : markClipDirty(text)
    \/ saveClip
    \/ clipAutosaveTimerFires
    \/ \E i \in DOMAIN net : WorkerResponds(i)
    \/ \E i \in DOMAIN net : ResponseArrives(i)
    \/ \E i \in DOMAIN net : RequestFails(i)

SpecFailures == InitLoggedIn /\ [][NextFailures]_vars

\* the notes of a logged-in client: edits, saves, selection and delete
NextNotes ==
    \/ \E text \in Texts : markDirty(text)
    \/ onSaveClick
    \/ autosaveTimerFires
    \/ \E k \in DOMAIN memos : selectMemo(memos[k])
    \/ startNewMemo
    \/ deleteMemo
    \/ \E i \in DOMAIN net : WorkerResponds(i)
    \/ \E i \in DOMAIN net : ResponseArrives(i)
    \/ \E i \in DOMAIN net : RequestFails(i)

SpecNotes == InitLoggedIn /\ [][NextNotes]_vars

\* drafts of new notes around the minimum length of an autosaved new note:
\* trimmed lengths 0 to 3, blanks at either end
NewNoteInputs ==
    {<<>>, <<" ">>, <<"a">>, <<"a", "a">>, <<" ", "a", "a">>, <<"a", "a", " ">>,
     <<"a", "a", "a">>, <<"a", "a", "a", " ">>}

NextNewNote ==
    \/ \E text \in NewNoteInputs : markDirty(text)
    \/ onSaveClick
    \/ autosaveTimerFires
    \/ startNewMemo
    \/ \E i \in DOMAIN net : WorkerResponds(i)
    \/ \E i \in DOMAIN net : ResponseArrives(i)
    \/ \E i \in DOMAIN net : RequestFails(i)

SpecNewNote == InitLoggedIn /\ [][NextNewNote]_vars

\* both drafts and the sign-out button, in a session whose token stays valid:
\* the token is cleared by signOut alone
NextSession ==
    \/ \E text \in MemoInputs : markDirty(text)
    \/ onSaveClick
    \/ autosaveTimerFires
    \/ \E text \in ClipInputs : markClipDirty(text)
    \/ saveClip
    \/ clipAutosaveTimerFires
    \/ signOut
    \/ \E i \in DOMAIN net : WorkerResponds(i)
    \/ \E i \in DOMAIN net : ResponseArrives(i)
    \/ \E i \in DOMAIN net : RequestFails(i)

SpecSession == InitLoggedIn /\ [][NextSession]_vars

\* withBlocking: the overlay is up while refreshAll awaits its two loads
isBlocking == InFlight({"loadMemos", "loadClip"}) # {}

\* drafts and the refresh button: the user acts while the overlay is down
NextReload ==
    \/ ~isBlocking /\ \E text \in MemoInputs : markDirty(text)
    \/ ~isBlocking /\ onSaveClick
    \/ ~isBlocking /\ startNewMemo
    \/ ~isBlocking /\ \E text \in ClipInputs : markClipDirty(text)
    \/ ~isBlocking /\ saveClip
    \/ refreshAll
    \/ \E i \in DOMAIN net : WorkerResponds(i)
    \/ \E i \in DOMAIN net : ResponseArrives(i)
    \/ \E i \in DOMAIN net : RequestFails(i)

SpecReload == InitLoggedIn /\ [][NextReload]_vars

\* the clip routes of the Worker under overlapping requests of a logged-in
\* client, with the clock and the expiry of the clip
ClipRoutes == {"GET /api/clip", "POST /api/clip"}

NextClipStore ==
    \/ \E s \in Slots, route \in ClipRoutes : Arrives(s, route, 0, AuthHeader("t1"))
    \/ \E s \in Slots : \E body \in Bodies(worker[s].route) : Auth(s, body)
    \/ \E s \in Slots : ClipGet(s)
    \/ \E s \in Slots : ClipPut(s)
    \/ \E s \in Slots : Completes(s)
    \/ Tick
    \/ ClipExpires

SpecClipStore == InitLoggedIn /\ [][NextClipStore]_vars

\* the note routes of the Worker under requests of a logged-in client that
\* arrive in any order and overlap
NoteRoutes ==
    {"GET /api/memos", "POST /api/memos", "GET /api/memos/id",
     "PUT /api/memos/id", "DELETE /api/memos/id"}

NextWorker ==
    \/ \E s \in Slots, route \in NoteRoutes :
         \E id \in (IF route \in WithId THEN Ids ELSE {0}) :
            Arrives(s, route, id, AuthHeader("t1"))
    \/ \E s \in Slots : \E body \in Bodies(worker[s].route) : Auth(s, body)
    \/ \E s \in Slots : ListGet(s)
    \/ \E s \in Slots : ListSelect(s)
    \/ \E s \in Slots : ListPut(s)
    \/ \E s \in Slots : Insert(s, MaxRacing)
    \/ \E s \in Slots : InsertDel(s)
    \/ \E s \in Slots : MemoGet(s)
    \/ \E s \in Slots : MemoSelect(s)
    \/ \E s \in Slots : MemoPut(s)
    \/ \E s \in Slots : Update(s)
    \/ \E s \in Slots : UpdateDelList(s)
    \/ \E s \in Slots : UpdateDelMemo(s)
    \/ \E s \in Slots : UpdateSelect(s)
    \/ \E s \in Slots : Delete(s)
    \/ \E s \in Slots : DeleteDelList(s)
    \/ \E s \in Slots : DeleteDelMemo(s)
    \/ \E s \in Slots : Completes(s)
    \/ Tick
    \/ CacheExpires

SpecWorker == InitLoggedIn /\ [][NextWorker]_vars

\* the note routes on one note, with runs that end between the durable write
\* and its invalidation; every run that is not cut off goes on, and every
\* cache entry reaches its expirationTtl
WorkerStep(s) ==
    \/ \E body \in Bodies(worker[s].route) : Auth(s, body)
    \/ ListGet(s) \/ ListSelect(s) \/ ListPut(s)
    \/ Insert(s, MaxRacing) \/ InsertDel(s)
    \/ MemoGet(s) \/ MemoSelect(s) \/ MemoPut(s)
    \/ Update(s) \/ UpdateDelList(s) \/ UpdateDelMemo(s) \/ UpdateSelect(s)
    \/ Delete(s) \/ DeleteDelList(s) \/ DeleteDelMemo(s)
    \/ Completes(s)

NextStale ==
    \/ \E s \in Slots, route \in NoteRoutes :
            Arrives(s, route, IF route \in WithId THEN 1 ELSE 0, AuthHeader("t1"))
    \/ \E s \in Slots : WorkerStep(s)
    \/ \E s \in Slots : Crash(s)
    \/ CacheExpires

SpecStale ==
    /\ InitLoggedIn
    /\ [][NextStale]_vars
    /\ \A s \in Slots : WF_vars(WorkerStep(s))
    /\ WF_vars(CacheExpires /\ kvList' = <<>>)
    /\ \A id \in Ids : WF_vars(CacheExpires /\ kvMemo'[id] = <<>>)

\* every route of the Worker under any credential, one request at a time
NextAuth ==
    \/ \E route \in Routes, header \in Headers :
         \E id \in (IF route \in WithId THEN Ids ELSE {0}) :
            Arrives(1, route, id, header)
    \/ \E body \in Bodies(worker[1].route) : Login(1, body)
    \/ \E body \in Bodies(worker[1].route) : Auth(1, body)
    \/ ListGet(1) \/ ListSelect(1) \/ ListPut(1)
    \/ Insert(1, MaxId) \/ InsertDel(1)
    \/ MemoGet(1) \/ MemoSelect(1) \/ MemoPut(1)
    \/ Update(1) \/ UpdateDelList(1) \/ UpdateDelMemo(1) \/ UpdateSelect(1)
    \/ Delete(1) \/ DeleteDelList(1) \/ DeleteDelMemo(1)
    \/ ClipGet(1) \/ ClipPut(1)
    \/ Completes(1)
    \/ TokenExpires
    \/ ClipExpires

SpecAuth == Init /\ [][NextAuth]_vars

(***************************************************************************)
(* Properties of the client drafts.                                        *)
(***************************************************************************)
SavesIn(q) == {i \in DOMAIN q : q[i].kind = "saveMemo"}
ClipSavesIn(q) == {i \in DOMAIN q : q[i].kind \in {"saveClip", "autosaveClip"}}

\* C1: at most one memo save request (the POST or PUT of saveMemo) is in
\* flight at any instant.
C1_OneMemoSaveInFlight == Cardinality(SavesIn(net)) <= 1

\* C1 witness: a save is in flight, an edit arrived meanwhile (pending flag)
\* and the autosave timeout is armed as well.
C1_Witness ==
    /\ Cardinality(SavesIn(net)) = 1
    /\ memoAutosavePending
    /\ autosaveTimer > 0
    /\ editorDirty

\* C2: when edits arrive while a memo save is in flight and leave the draft
\* dirty with content the save did not send, then as the save resolves (the
\* session still open) the edited content stays in the editor and the one
\* follow-up autosave is scheduled for it.
C2_FollowUpAfterMidFlightEdit ==
    [][\A i \in SavesIn(net) :
          (/\ net' = RemoveAt(net, i)
           /\ memoAutosavePending
           /\ editorDirty
           /\ Trim(editorContent) # <<>>
           /\ Trim(editorContent) # net[i].text
           /\ token' # "")
          => (/\ Trim(editorContent') = Trim(editorContent)
              /\ autosaveTimer' > 0)]_vars

\* nothing of the memo autosave is left to happen
MemoQuiet ==
    /\ SavesIn(net) = {}
    /\ ~isSaving
    /\ autosaveTimer = 0
    /\ ~memoAutosavePending

\* C3: once the user has stopped typing, no save has failed and the autosave
\* has nothing left to do, the note on the server holds the trimmed text the
\* user typed last and the draft's snapshot is that text (a new note shorter
\* than 3 characters is never autosaved, an empty one never saved).
C3_ConvergesToLastTyped ==
    (/\ typed # <<>>
     /\ MemoQuiet
     /\ token # ""
     /\ Trim(typed[1]) # <<>>
     /\ (selectedId = 0 => Len(Trim(typed[1])) >= 3))
    => (/\ \E row \in db : row.id = selectedId /\ row.content = Trim(typed[1])
        /\ memoLastSavedContent = Trim(typed[1]))

\* C4: at most one clip save request (the POST of saveClip or of the clip
\* autosave callback) is in flight at any instant.
C4_OneClipSaveInFlight == Cardinality(ClipSavesIn(net)) <= 1

\* C5: when a clip save (manual or autosave) succeeds, clipLastSavedText
\* becomes the text that request sent.
C5_SnapshotIsTextSent ==
    [][\A i \in ClipSavesIn(net) :
          (/\ ResponseArrives(i)
           /\ Ok(net[i].resp[1].status))
          => clipLastSavedText' = net[i].text]_vars

\* C6: an autosave timeout that fires while the draft equals the last saved
\* snapshot (memo: trimmed content = memoLastSavedContent; clip: clipText =
\* clipLastSavedText) sends no request.
C6_NoAutosaveWhenUnchanged ==
    [][/\ (autosaveTimer' < autosaveTimer
           /\ Trim(editorContent) = memoLastSavedContent) => net' = net
       /\ (clipAutosaveTimer' < clipAutosaveTimer
           /\ clipText = clipLastSavedText) => net' = net]_vars

\* C6 witness: both timeouts have fired on edited but unchanged drafts (the
\* memo draft is dirty, a blank apart from the snapshot) and nothing was sent.
C6_Witness ==
    /\ token # ""
    /\ editorDirty
    /\ editorContent # memoLastSavedContent
    /\ Trim(editorContent) = memoLastSavedContent
    /\ memoLastSavedContent # <<>>
    /\ clipText = clipLastSavedText
    /\ clipText # <<>>
    /\ autosaveTimer = 0
    /\ clipAutosaveTimer = 0
    /\ ~isSaving
    /\ ~clipSaving
    /\ net = <<>>

(***************************************************************************)
(* Properties of the Worker.                                               *)
(***************************************************************************)
Answered(routes) == {s \in Slots : worker[s].pc = "done" /\ worker[s].route \in routes}

\* C7: a GET /api/memos that started after every executed write had been
\* answered, and that no later write overlapped, answers with the table as
\* it is, whatever the other invocations did in between.
C7_ListNeverPredatesWrite ==
    \A s \in Answered({"GET /api/memos"}) :
        worker[s].after = "any" /\ worker[s].status = 200
        => worker[s].data \in DbAll(db)

\* C8: a PUT on an existing note that answered 200 (and was not overtaken by
\* a later write of the note) left the row with its id and created_at, the
\* new content and updated_at at the time of the update; and a GET of the
\* note that started after that answer returns the row with the new content.
C8_UpdateThenRead ==
    /\ \A s \in Answered({"PUT /api/memos/id"}) :
          worker[s].status = 200 /\ worker[s].latest
          => DbFirst(db, worker[s].id) =
                <<MemoRow(worker[s].id, worker[s].body[1],
                          worker[s].old[1].created_at, worker[s].now)>>
    /\ \A s \in Answered({"GET /api/memos/id"}) :
          worker[s].after = "PUT"
          => /\ worker[s].status = 200
             /\ <<worker[s].data>> = DbFirst(db, worker[s].id)

\* C9: a DELETE answers 404 exactly when the note did not exist and 204 when
\* it did, the row then being gone; and a GET of the note that started after
\* the 204 answers 404.
C9_DeleteThenRead ==
    /\ \A s \in Answered({"DELETE /api/memos/id"}) :
          /\ worker[s].status = IF worker[s].old = <<>> THEN 404 ELSE 204
          /\ worker[s].status = 204 /\ worker[s].latest
             => DbFirst(db, worker[s].id) = <<>>
    /\ \A s \in Answered({"GET /api/memos/id"}) :
          worker[s].after = "DELETE" => worker[s].status = 404

\* C10: an invocation, other than login and OPTIONS, whose bearer token is
\* missing, malformed or no live key is answered 401 and has read or written
\* neither the notes, nor their caches, nor the clip slot.
C10_UnauthorizedTouchesNothing ==
    \A s \in Slots :
        worker[s].bad
        => /\ worker[s].pc = "done"
           /\ worker[s].status = 401
           /\ worker[s].data = "unauthorized"
           /\ ~worker[s].touched

\* C10 witness: a clip write carrying a token that expired was answered 401
\* while notes and a clip were in the stores.
C10_Witness ==
    \E s \in Slots :
        /\ worker[s].bad
        /\ worker[s].pc = "done"
        /\ worker[s].route = "POST /api/clip"
        /\ worker[s].header = <<"Bearer", "t1">>
        /\ worker[s].status = 401
        /\ db # {}
        /\ kvClip # <<>>

C12_Save401ClearsTokenKeepsDraft ==
    [][\A i \in SavesIn(net) :
          (/\ ResponseArrives(i)
           /\ net[i].resp[1].status = 401)
          => (/\ token' = ""
              /\ ~WorkspaceShown'
              /\ UNCHANGED <<editorContent, editorDirty, memoLastSavedContent>>)]_vars

\* C12 witness: the token was cleared by a 401 on a save (a sign-out would
\* have emptied the draft) and the draft is still dirty and unsaved.
C12_Witness ==
    /\ token = ""
    /\ editorDirty
    /\ Trim(editorContent) # <<>>
    /\ Trim(editorContent) # memoLastSavedContent
    /\ ~isSaving
    /\ net = <<>>

\* the request a step sends, if it sends one: <<request>> or <<>>
Sent(q, q2) == IF Len(q2) > Len(q) THEN <<q2[Len(q2)]>> ELSE <<>>

AutosaveRequest(r) ==
    \/ r.kind = "saveMemo" /\ r.fromAutosave
    \/ r.kind = "autosaveClip"

\* C13: while the stored token is empty, no step sends an autosave request,
\* neither for the memo draft nor for the clip draft, also when the timeout
\* was armed before the token was cleared.
C13_NoAutosaveWithoutToken ==
    [][token = ""
       => \A k \in DOMAIN Sent(net, net') : ~AutosaveRequest(Sent(net, net')[k])]_vars

\* the save of request i fails short of a 401: it times out, the network
\* fails, or the answer is another non-2xx status
FailsUnauthenticatedNot(i) ==
    \/ RequestFails(i)
    \/ /\ ResponseArrives(i)
       /\ ~Ok(net[i].resp[1].status)
       /\ net[i].resp[1].status # 401

\* C14: a memo or clip save that fails for a reason other than a 401 leaves
\* the token, both drafts' content, the dirty flag, both last-saved
\* snapshots, the selection and the local list of notes as they were.
C14_FailureLeavesStateUntouched ==
    [][\A i \in SavesIn(net) \cup ClipSavesIn(net) :
          FailsUnauthenticatedNot(i)
          => UNCHANGED <<token, editorContent, editorDirty, memoLastSavedContent,
                         selectedId, memos, clipText, clipLastSavedText>>]_vars

\* C14 witness: a save of the dirty draft of a note failed (the note is gone
\* from the table, the save got a 404 or no answer); the token, the dirty
\* draft, the selection and the list are still there.
C14_Witness ==
    /\ editorDirty
    /\ typed = <<>>
    /\ token = "t1"
    /\ selectedId # 0
    /\ DbFirst(db, selectedId) = <<>>
    /\ \E k \in DOMAIN memos : memos[k].id = selectedId
    /\ Trim(editorContent) # memoLastSavedContent
    /\ net = <<>>

\* the memo autosave timeout is armed and its callback, run on the refs as
\* they are, sends a save request
AutosaveWouldSend ==
    /\ autosaveTimer > 0
    /\ editorDirty
    /\ ~saveMemoSkips(isSaving, Trim(editorContent), TRUE, memoLastSavedContent)
    /\ ~(selectedId = 0 /\ Len(Trim(editorContent)) < 3)

\* C15: when a memo save fails and no edit arrived while it was in flight
\* (pending flag unset), nothing is left that sends a save of that draft
\* without a further user action: no armed autosave timeout that would
\* re-send the content.
C15_NoAutomaticResend ==
    [][\A i \in SavesIn(net) :
          (/\ RequestFails(i) \/ (ResponseArrives(i) /\ ~Ok(net[i].resp[1].status))
           /\ ~memoAutosavePending)
          => ~AutosaveWouldSend']_vars

\* C16: when a memo save succeeds, memoLastSavedContent becomes the content
\* the request sent, editorDirty becomes false and the local list holds the
\* record the server returned: a new note's record is added in front and
\* selected, an existing note's entry is replaced by that record, the other
\* entries staying as they were.
C16_SuccessStoresServerRecord ==
    [][\A i \in SavesIn(net) :
          (/\ ResponseArrives(i)
           /\ Ok(net[i].resp[1].status))
          => LET data == net[i].resp[1].data IN
             /\ memoLastSavedContent' = net[i].text
             /\ ~editorDirty'
             /\ \E k \in DOMAIN memos' : memos'[k] = data
             /\ IF net[i].id = 0
                THEN /\ memos' = <<data>> \o memos
                     /\ selectedId' = data.id
                ELSE /\ data.id = net[i].id
                     /\ Len(memos') = Len(memos)
                     /\ \A k \in DOMAIN memos :
                          memos'[k] = IF memos[k].id = data.id THEN data ELSE memos[k]]_vars

\* C17: when the DELETE of note N succeeds, N and no other note leaves the
\* local list, and the selection becomes the first remaining note, or the
\* empty new-note draft if none remains, whatever was selected or saved
\* while the DELETE was in flight.
C17_DeleteRemovesThatNote ==
    [][\A i \in InFlight({"deleteMemo"}) :
          (/\ ResponseArrives(i)
           /\ Ok(net[i].resp[1].status))
          => /\ memos' = FilterMemos(memos, net[i].id)
             /\ IF memos' # <<>>
                THEN /\ selectedId' = memos'[1].id
                     /\ editorContent' = memos'[1].content
                ELSE /\ selectedId' = 0
                     /\ editorContent' = <<>>]_vars

\* C18: a click on a note takes effect at once, dirty draft or not: editor
\* and snapshot become that note's content and dirty is cleared.  Whenever
\* the selection changes the editor is reloaded with the snapshot, so no
\* text typed under the former selection stays in it; every memo save sends
\* the selection and the trimmed editor content of the moment it is sent;
\* and the autosave timeout sends nothing for a draft that is not dirty.
C18_SwitchDiscardsDraft ==
    [][/\ (selectedId' # selectedId /\ selectedId' # 0 /\ net' = net)
          => \E k \in DOMAIN memos :
               /\ memos[k].id = selectedId'
               /\ editorContent' = memos[k].content
               /\ memoLastSavedContent' = memos[k].content
               /\ ~editorDirty'
       /\ selectedId' # selectedId
          => (~editorDirty' /\ editorContent' = memoLastSavedContent')
       /\ \A k \in DOMAIN Sent(net, net') :
            LET r == Sent(net, net')[k] IN
            r.kind = "saveMemo"
            => /\ r.id = selectedId
               /\ r.text = Trim(editorContent)
               /\ r.fromAutosave => editorDirty]_vars

\* C18 witness: the second note of the list was selected while the autosave
\* timeout armed by edits of another draft is still running; the editor
\* shows the selected note, clean.
C18_Witness ==
    /\ Len(memos) = 2
    /\ selectedId = memos[2].id
    /\ editorContent = memos[2].content
    /\ memoLastSavedContent = memos[2].content
    /\ memos[1].content # memos[2].content
    /\ ~editorDirty
    /\ autosaveTimer > 0
    /\ ~isSaving
    /\ net = <<>>

\* C19: no memo save request carries an empty trimmed content; an autosave
\* of a new note (no selected id) is sent only with a trimmed content of
\* length 3 or more; a save the user triggers on a new note is sent for any
\* trimmed content that is not empty (no save being in flight).
C19_SaveLengthRules ==
    [][/\ \A k \in DOMAIN Sent(net, net') :
            LET r == Sent(net, net')[k] IN
            r.kind = "saveMemo"
            => /\ r.text = Trim(editorContent)
               /\ r.text # <<>>
               /\ (r.id = 0 /\ r.fromAutosave) => Len(r.text) >= 3
       /\ (onSaveClick /\ ~isSaving /\ selectedId = 0 /\ Trim(editorContent) # <<>>)
          => /\ Sent(net, net') # <<>>
             /\ Sent(net, net')[1].kind = "saveMemo"
             /\ Sent(net, net')[1].id = 0
             /\ ~Sent(net, net')[1].fromAutosave]_vars

\* C19 witness: the autosave of a new note is in flight with a content of
\* exactly 3 characters, trimmed from a longer draft.
C19_Witness ==
    \E i \in SavesIn(net) :
        /\ net[i].id = 0
        /\ net[i].fromAutosave
        /\ Len(net[i].text) = 3
        /\ Len(editorContent) = 4
        /\ selectedId = 0

\* C20: in every state editorDirty is true exactly when the editor content
\* differs from memoLastSavedContent.
C20_DirtyIffDiffers == editorDirty <=> (editorContent # memoLastSavedContent)

(***************************************************************************)
(* Properties of the Worker: payloads, timestamps, clip, caches.           *)
(***************************************************************************)
\* C21: an authenticated POST /api/memos whose content is the empty string,
\* like one with no string content at all, is answered 400 invalid_payload
\* and has created no note.
C21_CreateRejectsEmptyContent ==
    \A s \in Answered({"POST /api/memos"}) :
        worker[s].body \in {<<>>, << <<>> >>}
        => /\ worker[s].status = 400
           /\ worker[s].data = "invalid_payload"
           /\ ~worker[s].touched

\* C22: an authenticated write whose body is malformed or lacks the string
\* field is answered 400 invalid_payload, an authenticated request matching
\* no route 404 not_found, both before any store or cache call; a PUT that
\* finds no row is answered 404 not_found; and the step that answers leaves
\* the table, every cache key and the clip slot as they were.
C22_RejectionsChangeNothing ==
    [][\A s \in Slots :
         /\ (worker[s].pc = "auth" /\ worker'[s].pc # "auth" /\ ~worker'[s].bad)
            => /\ (worker[s].route \in WithBody /\ worker'[s].body = <<>>)
                  => /\ worker'[s].pc = "done"
                     /\ worker'[s].status = 400
                     /\ worker'[s].data = "invalid_payload"
                     /\ ~worker'[s].touched
                     /\ UNCHANGED <<db, lastRowId, kvList, kvMemo, kvClip>>
               /\ worker[s].route = "GET /api/other"
                  => /\ worker'[s].pc = "done"
                     /\ worker'[s].status = 404
                     /\ worker'[s].data = "not_found"
                     /\ ~worker'[s].touched
                     /\ UNCHANGED <<db, lastRowId, kvList, kvMemo, kvClip>>
         /\ (/\ worker[s].pc = "update" /\ worker'[s].pc # "update"
             /\ DbFirst(db, worker[s].id) = <<>>)
            => /\ worker'[s].pc = "done"
               /\ worker'[s].status = 404
               /\ worker'[s].data = "not_found"
               /\ UNCHANGED <<db, lastRowId, kvList, kvMemo, kvClip>>]_vars

\* C22 witness: a PUT on an id with no row was answered 404 while another
\* note, a cached list and a clip were in the stores.
C22_Witness ==
    \E s \in Answered({"PUT /api/memos/id"}) :
        /\ worker[s].status = 404
        /\ DbFirst(db, worker[s].id) = <<>>
        /\ db # {}
        /\ kvList # <<>>
        /\ kvClip # <<>>

\* a step leaves every note with its id and created_at, and a note it
\* creates has created_at = updated_at
KeepsIdentity ==
    /\ \A r \in db, r2 \in db' : r.id = r2.id => r2.created_at = r.created_at
    /\ \A r2 \in db' :
         (\A r \in db : r.id # r2.id) => r2.created_at = r2.updated_at

\* C23: with a clock that never goes back, every note of the table has
\* updated_at >= created_at, a note just created has both equal, and no
\* request changes the id or created_at of a note.
C23_TimestampsOrdered ==
    [][/\ \A r2 \in db' : r2.updated_at >= r2.created_at
       /\ KeepsIdentity]_vars

\* {text: null}
NullClip == [text |-> <<>>, created_at |-> -1, null |-> TRUE]

\* C24: a POST /api/clip overwrites the slot with its text and save time and
\* answers 201 with them; nothing but a POST fills the slot and nothing but
\* the expiry empties it; a GET /api/clip answers with the slot's text and
\* save time, an empty text included, and with {text: null} exactly when the
\* slot is empty.
C24_ClipRoundTrip ==
    [][/\ \A s \in Slots :
            /\ (worker[s].pc = "clipPut" /\ worker'[s].pc = "done")
               => LET payload == [text |-> worker[s].body[1],
                                  created_at |-> worker[s].now, null |-> FALSE] IN
                  /\ kvClip' = <<payload>>
                  /\ worker'[s].status = 201
                  /\ worker'[s].data = payload
            /\ (worker[s].pc = "clipGet" /\ worker'[s].pc = "done")
               => /\ worker'[s].status = 200
                  /\ worker'[s].data = IF kvClip = <<>> THEN NullClip ELSE kvClip[1]
                  /\ worker'[s].data.null <=> kvClip = <<>>
       /\ kvClip' # kvClip
          => \/ \E s \in Slots : worker[s].pc = "clipPut" /\ worker'[s].pc = "done"
             \/ kvClip' = <<>> /\ worker' = worker]_vars

\* C24 witness: a GET was answered with an empty text and its save time,
\* not null: the clip saved last, at the later clock value, is the empty
\* string.
C24_Witness ==
    \E s \in Answered({"GET /api/clip"}) :
        /\ worker[s].status = 200
        /\ ~worker[s].data.null
        /\ worker[s].data.text = <<>>
        /\ worker[s].data.created_at = MaxClock
        /\ kvClip = <<worker[s].data>>

\* Number(value) of an environment setting: not a number (the setting is
\* missing or is no numeral), an infinity, or a number
EnvValues ==
    {[kind |-> "NaN", n |-> 0], [kind |-> "Infinity", n |-> 0]}
    \cup {[kind |-> "number", n |-> n] : n \in {-1, 0, 1, 30}}

FallbackCacheTtl == 60

getNumberEnv(parsed, fallback) ==
    IF parsed.kind = "number" /\ parsed.n > 0 THEN parsed.n ELSE fallback

\* every cache entry there is holds what the store holds
CachesFresh ==
    /\ kvList # <<>> => kvList[1] \in DbAll(db)
    /\ \A id \in Ids : kvMemo[id] # <<>> => kvMemo[id] = DbFirst(db, id)

\* C25: the expirationTtl of a cache entry is a positive number whatever the
\* environment setting; a read served from a cache entry leaves the entry as
\* it is; and once
\* the writes to the store have stopped, be it with a run cut off between its
\* write and its invalidation, the cache entries that differ from the store
\* expire: from some point on every entry holds the store's content, which
\* is then what every read returns.
C25_StalenessBoundedByTtl ==
    /\ [][\A s \in Slots :
            (worker[s].pc \in {"listGet", "memoGet"} /\ worker'[s].pc = "done")
            => kvList' = kvList /\ kvMemo' = kvMemo]_vars
    /\ [](\A parsed \in EnvValues :
            getNumberEnv(parsed, FallbackCacheTtl) \in Nat \ {0})
    /\ <>[][db' = db]_vars => <>[]CachesFresh

\* C25 witness: a write reached the store and its run ended before the
\* invalidation: nothing is running, the last write was never answered and
\* the list cache still holds the content the write replaced.
C25_Witness ==
    /\ \A s \in Slots : worker[s].pc = "idle"
    /\ lastWrite[1].kind = "PUT"
    /\ ~lastWrite[1].acked
    /\ kvList # <<>>
    /\ kvList[1] \notin DbAll(db)
    /\ kvMemo[1] # <<>>
    /\ kvMemo[1] # DbFirst(db, 1)

\* C29: every 200 answer to PUT /api/memos/N carries the row of the store at
\* the time the answer is built, with the created_at the note had before the
\* update; no 200 is answered with a record of a note that a concurrent
\* DELETE has removed.
C29_PutAnswersStoredRow ==
    [][\A s \in Slots :
          (worker[s].pc = "updateSelect" /\ worker'[s].pc = "done")
          => /\ worker'[s].status = 200
             /\ <<worker'[s].data>> = DbFirst(db, worker[s].id)
             /\ worker'[s].data.created_at = worker[s].old[1].created_at]_vars

(***************************************************************************)
(* Properties of the client: timers, selection, reload, sign-out.          *)
(***************************************************************************)
\* C26: at most one autosave timeout is armed per draft; an edit made while
\* no save of its draft is in flight leaves exactly one timeout armed, the
\* one it arms; an edit sends nothing, and the firing of a timeout consumes
\* it and sends at most one autosave request: so a burst of edits with no
\* firing in between produces at most one autosave request.
C26_OneTimerPerDraft ==
    /\ [](autosaveTimer <= 1 /\ clipAutosaveTimer <= 1)
    /\ [][/\ (\E text \in MemoInputs : markDirty(text))
             => /\ net' = net
                /\ ~isSaving => autosaveTimer' = 1
          /\ (\E text \in ClipInputs : markClipDirty(text))
             => /\ net' = net
                /\ ~clipSaving => clipAutosaveTimer' = 1
          /\ autosaveTimerFires
             => /\ autosaveTimer' = 0
                /\ Len(Sent(net, net')) <= 1
          /\ clipAutosaveTimerFires
             => /\ clipAutosaveTimer' = 0
                /\ Len(Sent(net, net')) <= 1]_vars

\* C26 witness: after edits of both drafts (the memo draft was typed and
\* emptied again) one timeout is armed for each and nothing was sent.
C26_Witness ==
    /\ autosaveTimer = 1
    /\ clipAutosaveTimer = 1
    /\ editorDirty
    /\ editorContent = <<>>
    /\ typed = << <<>> >>
    /\ clipText # clipLastSavedText
    /\ net = <<>>
    /\ db = {}
    /\ kvClip = <<>>

\* C27: the completion of a memo save leaves the selection alone: when the
\* user has selected another note, or started a new one, while the save was
\* in flight, the selection and the editor content are the same after the
\* save resolves, however it resolves.
C27_SaveKeepsSelection ==
    [][\A i \in SavesIn(net) :
          (/\ ResponseArrives(i) \/ RequestFails(i)
           /\ selectedId # net[i].id)
          => /\ selectedId' = selectedId
             /\ editorContent' = editorContent]_vars

\* C28: when loadMemos or loadClip resolves, a draft with unsaved edits keeps
\* its content: the memo draft while it is dirty, a dirty new-note draft
\* included, and the clip draft while it differs from the last saved text.
C28_RefreshKeepsDirtyDrafts ==
    [][\A i \in DOMAIN net :
          ResponseArrives(i) \/ RequestFails(i)
          => /\ (net[i].kind = "loadMemos" /\ editorDirty)
                => editorContent' = editorContent /\ editorDirty'
             /\ (net[i].kind = "loadClip" /\ clipText # clipLastSavedText)
                => clipText' = clipText]_vars

\* C30: while the client is signed out it holds no note and no clip content:
\* the list is empty, nothing is selected, editor and clip box are empty;
\* also once the requests that were in flight at sign-out have completed.
C30_SignedOutHoldsNothing ==
    token = ""
    => /\ memos = <<>>
       /\ selectedId = 0
       /\ editorContent = <<>>
       /\ clipText = <<>>

\* C31: the pending flag of a draft is set only while a save of that draft
\* is running: memoAutosavePending implies isSaving and clipAutosavePending
\* implies clipSaving in every state; and the flag is cleared in the step
\* in which that save resolves, however it resolves.
C31_PendingOnlyWhileSaving ==
    /\ [](/\ memoAutosavePending => isSaving
          /\ clipAutosavePending => clipSaving)
    /\ [][\A i \in DOMAIN net :
            ResponseArrives(i) \/ RequestFails(i)
            => /\ net[i].kind = "saveMemo"
                  => ~isSaving' /\ ~memoAutosavePending'
               /\ net[i].kind = "saveClip"
                  => ~clipSaving' /\ ~clipAutosavePending']_vars

\* C31 witness: both drafts were edited while their saves are in flight:
\* both pending flags are set, with both saves running.
C31_Witness ==
    /\ memoAutosavePending
    /\ clipAutosavePending
    /\ isSaving
    /\ clipSaving
    /\ SavesIn(net) # {}
    /\ InFlight({"saveClip"}) # {}
    /\ token # ""

====
